---- MODULE Spec2Model ----
(***************************************************************************)
(* Model of the material/coating matcher (src/src/matcher.py) and of the   *)
(* UBP calculator (src/src/calculator.py) of eco-log.                      *)
(*                                                                         *)
(* Python str values that the code searches, trims or case-folds are       *)
(* sequences of one-character strings, so that strip(), upper(), lower()   *)
(* and the `in` substring test are computed and not assumed.  Reference    *)
(* ids and names (oeko_id, oeko_name, category) are only copied and        *)
(* compared whole by the code; they are TLA+ strings.  Floats are          *)
(* integers, except NaN.  Optional[...] values are None or Some(x).        *)
(***************************************************************************)
EXTENDS Integers, Sequences, FiniteSets, TLC

VARIABLES
    materials,             \* MaterialMatcher.materials
    type_overrides,        \* MaterialMatcher.type_overrides
    type_fallback,         \* MaterialMatcher.type_fallback
    coatings,              \* MaterialMatcher.coatings
    coating_alu_override,  \* MaterialMatcher.coating_alu_override
    call,                  \* the matcher call last made, with its arguments
    ret,                   \* and what it returned
    pc,                    \* position of UBPCalculator.calculate
    df_len,                \* len(df) of the DataFrame passed to calculate
    rows_read,             \* the rows df.iterrows() has yielded so far
    results,               \* the CalculationResults under construction
    heap,                  \* the CalculationResults objects of the runs below
    runs                   \* calculate calls in progress on one UBPCalculator

vars == <<materials, type_overrides, type_fallback, coatings,
          coating_alu_override, call, ret, pc, df_len, rows_read, results,
          heap, runs>>

store_vars == <<materials, type_overrides, type_fallback, coatings,
                coating_alu_override>>

-----------------------------------------------------------------------------
(* Python values *)

None == <<>>
Some(x) == <<x>>
NaN == <<"n", "a", "n">>

\* `x or 0` on an Optional[float]
OrZero(o) == IF o = None THEN 0 ELSE o[1]

\* `x or "Unknown"` on an Optional[str] holding a reference name
OrUnknownName(o) == IF o = None THEN "Unknown" ELSE IF o[1] = "" THEN "Unknown" ELSE o[1]

LowerChars == <<"a", "b", "c", "d", "e", "f", "g", "h", "i", "j", "k", "l", "m",
                "n", "o", "p", "q", "r", "s", "t", "u", "v", "w", "x", "y", "z">>
UpperChars == <<"A", "B", "C", "D", "E", "F", "G", "H", "I", "J", "K", "L", "M",
                "N", "O", "P", "Q", "R", "S", "T", "U", "V", "W", "X", "Y", "Z">>

upper_char(c) ==
    IF \E i \in 1..26 : LowerChars[i] = c
    THEN UpperChars[CHOOSE i \in 1..26 : LowerChars[i] = c]
    ELSE c

lower_char(c) ==
    IF \E i \in 1..26 : UpperChars[i] = c
    THEN LowerChars[CHOOSE i \in 1..26 : UpperChars[i] = c]
    ELSE c

\* str.upper()
upper(s) == [i \in 1..Len(s) |-> upper_char(s[i])]

\* str.lower()
lower(s) == [i \in 1..Len(s) |-> lower_char(s[i])]

IsSpace(c) == c = " "

RECURSIVE lstrip(_)
lstrip(s) == IF s # <<>> /\ IsSpace(Head(s)) THEN lstrip(Tail(s)) ELSE s

RECURSIVE rstrip(_)
rstrip(s) ==
    IF s # <<>> /\ IsSpace(s[Len(s)]) THEN rstrip(SubSeq(s, 1, Len(s) - 1)) ELSE s

\* str.strip()
strip(s) == rstrip(lstrip(s))

\* the substring test `sub in s`
Contains(sub, s) ==
    \E i \in 0..(Len(s) - Len(sub)) : SubSeq(s, i + 1, i + Len(sub)) = sub

\* dict.get(k, default) on a dict modelled as a record
Get(d, k, default) == IF k \in DOMAIN d THEN d[k] ELSE default

\* A dict whose iteration order the code relies on is the sequence of its
\* items, [key, data], in insertion (configured) order.
HasKey(d, k) == \E i \in 1..Len(d) : d[i].key = k
Lookup(d, k) == d[CHOOSE i \in 1..Len(d) : d[i].key = k].data

EmptyDict == <<>>

-----------------------------------------------------------------------------
(* Strings of the inputs and of the mapping stores *)

s_empty == <<>>
s_blank == <<" ">>
s_S235JR == <<"S", "2", "3", "5", "J", "R">>
s_s235jr_lc == <<"s", "2", "3", "5", "j", "r">>
s_S235JR_padded == <<" ", "S", "2", "3", "5", "J", "R", " ">>
s_304 == <<"3", "0", "4">>
s_X5CrNi == <<"X", "5", "C", "r", "N", "i", "1", "8", "-", "1", "0">>
s_ENAW6060 == <<"E", "N", " ", "A", "W", "-", "6", "0", "6", "0">>
s_PE == <<"P", "E">>
s_Edelstahl_X5CrNi == <<"E", "d", "e", "l", "s", "t", "a", "h", "l", " ", "X", "5", "C", "r", "N", "i">>
s_X5CrNi_gewalzt == <<"X", "5", "C", "r", "N", "i", " ", "g", "e", "w", "a", "l", "z", "t">>
s_Stahl_allgemein == <<"S", "t", "a", "h", "l", " ", "a", "l", "l", "g", "e", "m", "e", "i", "n">>

s_U_Profile == <<"U", " ", "-", " ", "P", "r", "o", "f", "i", "l", "e">>
s_Bleche == <<"B", "l", "e", "c", "h", "e">>
s_KANTBLECH == <<"K", "A", "N", "T", "B", "L", "E", "C", "H">>
s_Sechskantschrauben == <<"S", "e", "c", "h", "s", "k", "a", "n", "t", "s", "c", "h", "r", "a", "u", "b", "e", "n">>

s_M8x20 == <<"M", "8", "x", "2", "0">>
s_U_Kunststoffplatten == <<"U", "-", "K", "u", "n", "s", "t", "s", "t", "o", "f", "f", "p", "l", "a", "t", "t", "e", "n">>
s_Mutter_Kunststoff == <<"M", "u", "t", "t", "e", "r", " ", "K", "u", "n", "s", "t", "s", "t", "o", "f", "f">>

s_feuerverzinkt == <<"f", "e", "u", "e", "r", "v", "e", "r", "z", "i", "n", "k", "t">>
s_Pulverb_IGP == <<"P", "u", "l", "v", "e", "r", "b", ".", " ", "I", "G", "P">>
s_FEUERVERZINKT_Pulverb == <<"F", "E", "U", "E", "R", "V", "E", "R", "Z", "I", "N", "K", "T", "+", "P", "u", "l", "v", "e", "r", "b", ".">>
s_lackiert == <<"l", "a", "c", "k", "i", "e", "r", "t">>

s_Unknown == <<"U", "n", "k", "n", "o", "w", "n">>

k_Kant == <<"K", "a", "n", "t">>
k_blech == <<"b", "l", "e", "c", "h">>
k_Kantblech == <<"K", "a", "n", "t", "b", "l", "e", "c", "h">>
k_Bleche == <<"B", "l", "e", "c", "h", "e">>
k_schrauben == <<"s", "c", "h", "r", "a", "u", "b", "e", "n">>
k_Scheiben == <<"S", "c", "h", "e", "i", "b", "e", "n">>
k_Mutter == <<"M", "u", "t", "t", "e", "r">>
k_M8 == <<"M", "8">>
k_Kunststoff == <<"K", "u", "n", "s", "t", "s", "t", "o", "f", "f">>
k_verzinkt == <<"v", "e", "r", "z", "i", "n", "k", "t">>
k_Feuerverzinkt == <<"F", "e", "u", "e", "r", "v", "e", "r", "z", "i", "n", "k", "t">>
k_Pulverb == <<"P", "u", "l", "v", "e", "r", "b">>

\* keyword lists of the classifiers
AluminumKeywords ==
    << <<"A", "L">>,
       <<"A", "L", "U", "M", "I", "N", "I", "U", "M">>,
       <<"A", "L", "U", "M", "I", "N", "U", "M">>,
       <<"L", "E", "I", "C", "H", "T", "M", "E", "T", "A", "L", "L">>,
       <<"A", "W", "-", "6", "0", "6", "0">>,
       <<"A", "L", "9", "9">> >>

SteelKeywords ==
    << <<"S", "2", "3", "5">>,
       <<"S", "3", "5", "5">>,
       <<"S", "T", "A", "H", "L">>,
       <<"S", "T", "E", "E", "L">>,
       <<"M", "E", "T", "A", "L", "L", " ", "A", "L", "L", "G", "E", "M", "E", "I", "N">> >>

kw_X5CRNI == <<"X", "5", "C", "R", "N", "I">>
kw_304 == <<"3", "0", "4">>

-----------------------------------------------------------------------------
(* Mapping stores: what _load_mappings can leave in the five tables *)

MaterialEntry(id, name, ubp) == [oeko_id |-> id, oeko_name |-> name, ubp_per_kg |-> ubp]
MaterialEntryCat(id, name, ubp, cat) ==
    [oeko_id |-> id, oeko_name |-> name, ubp_per_kg |-> ubp, category |-> cat]
CoatingEntry(id, name, ubp) == [oeko_id |-> id, oeko_name |-> name, ubp_per_m2 |-> ubp]
Item(k, d) == [key |-> k, data |-> d]

\* the mapping file does not exist: every table is {}
StoreEmpty ==
    [materials |-> EmptyDict, type_overrides |-> EmptyDict, type_fallback |-> EmptyDict,
     coatings |-> EmptyDict, coating_alu_override |-> EmptyDict]

StoreA ==
    [materials |->
        << Item(s_S235JR, MaterialEntryCat("06.012", "Stahlprofil", 5, "steel")),
           Item(s_304, MaterialEntryCat("06.010", "Chromnickelstahlblech", 23, "stainless_steel")),
           Item(s_X5CrNi, MaterialEntryCat("06.010", "Chromnickelstahlblech", 23, "stainless_steel")),
           Item(s_Edelstahl_X5CrNi, MaterialEntryCat("06.010", "Chromnickelstahlblech", 23, "stainless_steel")),
           Item(s_X5CrNi_gewalzt, MaterialEntry("06.010", "Chromnickelstahlblech", 23)),
           Item(s_ENAW6060, MaterialEntryCat("06.002", "Aluminiumprofil", 31, "aluminum")),
           Item(s_Stahl_allgemein, MaterialEntry("06.012", "Stahlprofil", 5)) >>,
     type_overrides |->
        << Item(k_Kant, [aluminum |-> MaterialEntry("06.001", "Aluminiumblech", 37)]),
           Item(k_blech, [steel |-> MaterialEntry("06.013", "Stahlblech", 3)]),
           Item(k_Kantblech, [steel |-> MaterialEntry("06.014", "Stahlblech verzinkt", 4)]) >>,
     type_fallback |->
        [fasteners |-> [types |-> <<k_schrauben, k_Scheiben>>,
                        keywords |-> <<k_Mutter, k_M8>>,
                        oeko_id |-> "06.011", oeko_name |-> "Stahl niedriglegiert",
                        ubp_per_kg |-> 7],
         plastic |-> [keywords |-> <<k_Kunststoff>>,
                      oeko_id |-> "13.001", oeko_name |-> "Polyethylen", ubp_per_kg |-> 11]],
     coatings |->
        << Item(k_verzinkt, CoatingEntry("14.001", "Verzinken", 13)),
           Item(k_Feuerverzinkt, CoatingEntry("14.002", "Feuerverzinken", 17)),
           Item(k_Pulverb, CoatingEntry("14.003", "Pulverbeschichten Stahl", 19)) >>,
     coating_alu_override |->
        << Item(k_Pulverb, CoatingEntry("14.004", "Pulverbeschichten Aluminium", 29)) >>]

StoreB ==
    [materials |->
        << Item(s_S235JR, MaterialEntry("06.012", "Stahlprofil", 5)),
           Item(s_304, MaterialEntryCat("06.010", "Chromnickelstahlblech", 23, "stainless_steel")),
           Item(s_ENAW6060, MaterialEntryCat("06.002", "Aluminiumprofil", 31, "aluminum")) >>,
     type_overrides |->
        << Item(k_Kantblech, [steel |-> MaterialEntry("06.014", "Stahlblech verzinkt", 4),
                              aluminum |-> MaterialEntry("06.001", "Aluminiumblech", 37)]),
           Item(k_Bleche, [steel |-> MaterialEntry("06.013", "Stahlblech", 3)]) >>,
     type_fallback |->
        [fasteners |-> [keywords |-> <<k_M8>>,
                        oeko_id |-> "06.011", oeko_name |-> "Stahl niedriglegiert",
                        ubp_per_kg |-> 7],
         plastic |-> [keywords |-> <<k_Kunststoff, k_Mutter>>,
                      oeko_id |-> "13.001", oeko_name |-> "Polyethylen", ubp_per_kg |-> 11]],
     coatings |->
        << Item(k_Pulverb, CoatingEntry("14.003", "Pulverbeschichten Stahl", 19)),
           Item(k_Feuerverzinkt, CoatingEntry("14.002", "Feuerverzinken", 17)) >>,
     coating_alu_override |->
        << Item(k_Feuerverzinkt, CoatingEntry("14.005", "Anodisieren", 41)),
           Item(k_verzinkt, CoatingEntry("14.006", "Eloxieren", 43)) >>]

Stores == {StoreEmpty, StoreA, StoreB}

\* a mapping file that json.load accepts and _load_mappings stores as it is,
\* some of whose entries lack a key the matcher reads
StoreMalformed ==
    [materials |->
        << Item(s_S235JR, [oeko_name |-> "Stahlprofil", ubp_per_kg |-> 5]),
           Item(s_304, MaterialEntryCat("06.010", "Chromnickelstahlblech", 23, "stainless_steel")),
           Item(s_ENAW6060, MaterialEntryCat("06.002", "Aluminiumprofil", 31, "aluminum")) >>,
     type_overrides |->
        << Item(k_Kantblech, [steel |-> [oeko_id |-> "06.014", ubp_per_kg |-> 4]]),
           Item(k_Bleche, [steel |-> MaterialEntry("06.013", "Stahlblech", 3)]) >>,
     type_fallback |->
        [fasteners |-> [types |-> <<k_schrauben>>,
                        keywords |-> <<k_M8>>,
                        oeko_id |-> "06.011", oeko_name |-> "Stahl niedriglegiert",
                        ubp_per_kg |-> 7],
         plastic |-> [keywords |-> <<k_Kunststoff>>,
                      oeko_id |-> "13.001", oeko_name |-> "Polyethylen"]],
     coatings |->
        << Item(k_Feuerverzinkt, CoatingEntry("14.002", "Feuerverzinken", 17)),
           Item(k_Pulverb, [oeko_id |-> "14.003", ubp_per_m2 |-> 19]) >>,
     coating_alu_override |->
        << Item(k_Feuerverzinkt, [oeko_id |-> "14.005", oeko_name |-> "Anodisieren"]) >>]

MalformedStores == {StoreMalformed}

-----------------------------------------------------------------------------
(* src/src/matcher.py *)

MaterialMatch(m, id, name, ubp, cat, mt) ==
    [matched |-> m, oeko_id |-> id, oeko_name |-> name, ubp_per_kg |-> ubp,
     category |-> cat, match_type |-> mt]

CoatingMatch(m, id, name, ubp) ==
    [matched |-> m, oeko_id |-> id, oeko_name |-> name, ubp_per_m2 |-> ubp]

\* MaterialMatcher._normalize: text.strip().upper() if text else "". No
\* method of the matcher calls it.
_normalize(text) == IF text = <<>> THEN <<>> ELSE upper(strip(text))

\* any(keyword in mat_upper for keyword in [...])
AnyKeywordIn(keywords, mat_upper) ==
    \E i \in 1..Len(keywords) : Contains(keywords[i], mat_upper)

_is_aluminum(material) == AnyKeywordIn(AluminumKeywords, upper(material))

_is_steel(material) == AnyKeywordIn(SteelKeywords, upper(material))

\* mutant: the stainless markers are looked for after the aluminum and steel keywords
_get_base_category_stainless_last(material) ==
    LET mat_upper == upper(material) IN
    IF _is_aluminum(material) THEN "aluminum"
    ELSE IF _is_steel(material) THEN "steel"
    ELSE IF Contains(kw_X5CRNI, mat_upper) \/ mat_upper = kw_304 THEN "stainless_steel"
    ELSE "unknown"

_get_base_category(material) ==
    LET mat_upper == upper(material) IN
    IF Contains(kw_X5CRNI, mat_upper) \/ mat_upper = kw_304 THEN "stainless_steel"
    ELSE IF _is_aluminum(material) THEN "aluminum"
    ELSE IF _is_steel(material) THEN "steel"
    ELSE "unknown"

\* The loop returns at the first item whose key is in the type string and
\* whose data has a "steel" entry, provided the category is "steel".
OverrideApplies(category, i, typ) ==
    /\ Contains(lower(type_overrides[i].key), lower(typ))
    /\ category = "steel"
    /\ "steel" \in DOMAIN type_overrides[i].data

\* mutant: the loop keeps going and the last applicable rule wins
FirstOverrideHit_last(hits) == CHOOSE i \in hits : \A j \in hits : i >= j

\* the `return` inside the loop: the first applicable rule, in dict order
FirstOverrideHit(hits) == CHOOSE i \in hits : \A j \in hits : i <= j

_check_type_override(material, typ) ==
    LET category == _get_base_category(material)
        hits == {i \in 1..Len(type_overrides) : OverrideApplies(category, i, typ)}
    IN IF hits = {} THEN None
       ELSE LET first == FirstOverrideHit(hits)
                override == type_overrides[first].data["steel"]
            IN Some(MaterialMatch(TRUE, Some(override.oeko_id), Some(override.oeko_name),
                                  Some(override.ubp_per_kg), Some("steel_sheet"),
                                  "type_override"))

\* a list is searched in order; only whether some element is found matters,
\* every hit of one list returning the same match
AnyLowerIn(keys, text) ==
    \E i \in 1..Len(keys) : Contains(lower(keys[i]), lower(text))

FallbackMatch(rule, cat) ==
    Some(MaterialMatch(TRUE, Some(rule.oeko_id), Some(rule.oeko_name),
                       Some(rule.ubp_per_kg), Some(cat), "type_fallback"))

\* mutant: the plastic keywords are tried before the fastener rules
_check_type_fallback_plastic_first(typ, bezeichnung) ==
    LET fasteners == Get(type_fallback, "fasteners", EmptyDict)
        plastic == Get(type_fallback, "plastic", EmptyDict)
    IN IF /\ bezeichnung # <<>>
          /\ Get(plastic, "keywords", <<>>) # <<>>
          /\ AnyLowerIn(plastic.keywords, bezeichnung)
       THEN FallbackMatch(plastic, "plastic")
       ELSE IF /\ typ # <<>>
               /\ Get(fasteners, "types", <<>>) # <<>>
               /\ AnyLowerIn(fasteners.types, typ)
       THEN FallbackMatch(fasteners, "fastener")
       ELSE IF /\ bezeichnung # <<>>
               /\ Get(fasteners, "keywords", <<>>) # <<>>
               /\ AnyLowerIn(fasteners.keywords, bezeichnung)
       THEN FallbackMatch(fasteners, "fastener")
       ELSE None

_check_type_fallback(typ, bezeichnung) ==
    LET fasteners == Get(type_fallback, "fasteners", EmptyDict)
        plastic == Get(type_fallback, "plastic", EmptyDict)
    IN IF /\ typ # <<>>
          /\ Get(fasteners, "types", <<>>) # <<>>
          /\ AnyLowerIn(fasteners.types, typ)
       THEN FallbackMatch(fasteners, "fastener")
       ELSE IF /\ bezeichnung # <<>>
               /\ Get(fasteners, "keywords", <<>>) # <<>>
               /\ AnyLowerIn(fasteners.keywords, bezeichnung)
       THEN FallbackMatch(fasteners, "fastener")
       ELSE IF /\ bezeichnung # <<>>
               /\ Get(plastic, "keywords", <<>>) # <<>>
               /\ AnyLowerIn(plastic.keywords, bezeichnung)
       THEN FallbackMatch(plastic, "plastic")
       ELSE None

\* mutant: the unmatched result keeps the default match_type of MaterialMatch
Unmatched_default_tag(reason) == MaterialMatch(FALSE, None, None, None, None, "none")

Unmatched(reason) == MaterialMatch(FALSE, None, None, None, None, reason)

\* d["oeko_id"], d["oeko_name"] and d[ubp_key] are all there: reading them
\* raises no KeyError
HasEntryKeys(d, ubp_key) == {"oeko_id", "oeko_name", ubp_key} \subseteq DOMAIN d

\* _check_type_override raises KeyError: the rule it returns at has a steel
\* entry that lacks a key
_check_type_override_raises(material, typ) ==
    LET category == _get_base_category(material)
        hits == {i \in 1..Len(type_overrides) : OverrideApplies(category, i, typ)}
    IN /\ hits # {}
       /\ ~HasEntryKeys(type_overrides[FirstOverrideHit(hits)].data["steel"], "ubp_per_kg")

\* _check_type_fallback raises KeyError: the rule that fires lacks a key
_check_type_fallback_raises(typ, bezeichnung) ==
    LET fasteners == Get(type_fallback, "fasteners", EmptyDict)
        plastic == Get(type_fallback, "plastic", EmptyDict)
    IN IF /\ typ # <<>>
          /\ Get(fasteners, "types", <<>>) # <<>>
          /\ AnyLowerIn(fasteners.types, typ)
       THEN ~HasEntryKeys(fasteners, "ubp_per_kg")
       ELSE IF /\ bezeichnung # <<>>
               /\ Get(fasteners, "keywords", <<>>) # <<>>
               /\ AnyLowerIn(fasteners.keywords, bezeichnung)
       THEN ~HasEntryKeys(fasteners, "ubp_per_kg")
       ELSE IF /\ bezeichnung # <<>>
               /\ Get(plastic, "keywords", <<>>) # <<>>
               /\ AnyLowerIn(plastic.keywords, bezeichnung)
       THEN ~HasEntryKeys(plastic, "ubp_per_kg")
       ELSE FALSE

\* match_material raises KeyError instead of returning
match_material_raises(material_in, typ_in, bezeichnung_in) ==
    LET material == strip(material_in)
        typ == strip(typ_in)
        bezeichnung == strip(bezeichnung_in)
    IN IF material = <<>> \/ material = <<" ">>
       THEN _check_type_fallback_raises(typ, bezeichnung)
       ELSE IF HasKey(materials, material)
       THEN \/ _check_type_override_raises(material, typ)
            \/ /\ _check_type_override(material, typ) = None
               /\ ~HasEntryKeys(Lookup(materials, material), "ubp_per_kg")
       ELSE FALSE

\* mutant: a code that is not in the table falls through to the fallback chain
match_material_fallback_for_unknown(material_in, typ_in, bezeichnung_in) ==
    LET material == strip(material_in)
        typ == strip(typ_in)
        bezeichnung == strip(bezeichnung_in)
        fallback_match == _check_type_fallback(typ, bezeichnung)
    IN IF material # <<>> /\ HasKey(materials, material)
       THEN LET mat_data == Lookup(materials, material)
                override_match == _check_type_override(material, typ)
            IN IF override_match # None THEN override_match[1]
               ELSE MaterialMatch(TRUE, Some(mat_data.oeko_id), Some(mat_data.oeko_name),
                                  Some(mat_data.ubp_per_kg),
                                  Some(Get(mat_data, "category", "unknown")), "exact")
       ELSE IF fallback_match # None THEN fallback_match[1]
       ELSE IF material = <<>> THEN Unmatched("empty")
       ELSE Unmatched("no_mapping")

match_material(material_in, typ_in, bezeichnung_in) ==
    LET material == strip(material_in)
        typ == strip(typ_in)
        bezeichnung == strip(bezeichnung_in)
    IN IF material = <<>> \/ material = <<" ">>
       THEN LET fallback_match == _check_type_fallback(typ, bezeichnung)
            IN IF fallback_match # None THEN fallback_match[1] ELSE Unmatched("empty")
       ELSE IF HasKey(materials, material)
       THEN LET mat_data == Lookup(materials, material)
                override_match == _check_type_override(material, typ)
            IN IF override_match # None THEN override_match[1]
               ELSE MaterialMatch(TRUE, Some(mat_data.oeko_id), Some(mat_data.oeko_name),
                                  Some(mat_data.ubp_per_kg),
                                  Some(Get(mat_data, "category", "unknown")), "exact")
       ELSE Unmatched("no_mapping")

CoatingHits(beschichtung_lower) ==
    {i \in 1..Len(coatings) : Contains(lower(coatings[i].key), beschichtung_lower)}

\* mutant: the longest key found in the descriptor wins (best match)
FirstCoatingHit_longest(hits) ==
    CHOOSE i \in hits : \A j \in hits :
        \/ Len(coatings[i].key) > Len(coatings[j].key)
        \/ Len(coatings[i].key) = Len(coatings[j].key) /\ i <= j

\* the `return` inside the loop: the first key found, in dict order
FirstCoatingHit(hits) == CHOOSE i \in hits : \A j \in hits : i <= j

\* match_coating raises KeyError instead of returning
match_coating_raises(beschichtung, material) ==
    /\ ~(beschichtung = <<>> \/ strip(beschichtung) = <<>>)
    /\ CoatingHits(lower(beschichtung)) # {}
    /\ LET first == FirstCoatingHit(CoatingHits(lower(beschichtung)))
           coating_key == coatings[first].key
       IN IF _is_aluminum(material) /\ HasKey(coating_alu_override, coating_key)
          THEN ~HasEntryKeys(Lookup(coating_alu_override, coating_key), "ubp_per_m2")
          ELSE ~HasEntryKeys(coatings[first].data, "ubp_per_m2")

match_coating(beschichtung, material) ==
    IF beschichtung = <<>> \/ strip(beschichtung) = <<>>
    THEN CoatingMatch(FALSE, None, None, None)
    ELSE LET beschichtung_lower == lower(beschichtung)
             is_aluminum == _is_aluminum(material)
             hits == CoatingHits(beschichtung_lower)
         IN IF hits = {} THEN CoatingMatch(FALSE, None, None, None)
            ELSE LET first == FirstCoatingHit(hits)
                     coating_key == coatings[first].key
                     coating_data == coatings[first].data
                 IN IF is_aluminum /\ HasKey(coating_alu_override, coating_key)
                    THEN LET alu_data == Lookup(coating_alu_override, coating_key)
                         IN CoatingMatch(TRUE, Some(alu_data.oeko_id),
                                         Some(alu_data.oeko_name), Some(alu_data.ubp_per_m2))
                    ELSE CoatingMatch(TRUE, Some(coating_data.oeko_id),
                                      Some(coating_data.oeko_name),
                                      Some(coating_data.ubp_per_m2))

-----------------------------------------------------------------------------
(* src/src/calculator.py *)

\* int(row.get("anzahl", 1)) raises ValueError on NaN
IntRaises(raw) == raw = NaN

\* lines 153-163: None or NaN becomes 0.0, anything else float(raw)
CoerceFloat(raw) == IF raw = None \/ raw = NaN THEN 0 ELSE raw[1]

\* mutant: the factor defaults to 1 and the matched flag is not looked at
UbpMaterial_unguarded(mat_match, ges_gewicht_kg) ==
    ges_gewicht_kg * (IF mat_match.ubp_per_kg = None THEN 1 ELSE mat_match.ubp_per_kg[1])

\* lines 178-182; ComponentResult.ubp_material defaults to 0.0
UbpMaterial(mat_match, ges_gewicht_kg) ==
    IF mat_match.matched THEN ges_gewicht_kg * OrZero(mat_match.ubp_per_kg) ELSE 0

\* lines 188-192; ComponentResult.ubp_coating defaults to 0.0
UbpCoating(coat_match, flaeche_m2) ==
    IF coat_match.matched THEN flaeche_m2 * OrZero(coat_match.ubp_per_m2) ELSE 0

\* mutant: the coating impact is left out of the total
UbpTotal_material_only(ubp_material, ubp_coating) == ubp_material

\* line 195
UbpTotal(ubp_material, ubp_coating) == ubp_material + ubp_coating

\* an exception leaves _calculate_component: the ValueError of int(), or a
\* KeyError out of the matcher
_calculate_component_raises(row) ==
    \/ IntRaises(row.anzahl)
    \/ match_material_raises(row.material, row.typ, row.bezeichnung)
    \/ match_coating_raises(row.beschichtung, row.material)

_calculate_component(row) ==
    LET ges_gewicht_kg == CoerceFloat(row.ges_gewicht_kg)
        flaeche_m2 == CoerceFloat(row.flaeche_m2)
        mat_match == match_material(row.material, row.typ, row.bezeichnung)
        coat_match == match_coating(row.beschichtung, row.material)
        ubp_material == UbpMaterial(mat_match, ges_gewicht_kg)
        ubp_coating == UbpCoating(coat_match, flaeche_m2)
    IN [pos |-> row.pos,
        anzahl |-> row.anzahl[1],
        bezeichnung |-> row.bezeichnung,
        material |-> row.material,
        typ |-> row.typ,
        beschichtung |-> row.beschichtung,
        ges_gewicht_kg |-> ges_gewicht_kg,
        flaeche_m2 |-> flaeche_m2,
        material_matched |-> mat_match.matched,
        material_oeko_name |-> IF mat_match.matched THEN mat_match.oeko_name ELSE None,
        material_ubp_per_kg |-> IF mat_match.matched THEN mat_match.ubp_per_kg ELSE None,
        coating_matched |-> coat_match.matched,
        coating_oeko_name |-> IF coat_match.matched THEN coat_match.oeko_name ELSE None,
        coating_ubp_per_m2 |-> IF coat_match.matched THEN coat_match.ubp_per_m2 ELSE None,
        ubp_material |-> ubp_material,
        ubp_coating |-> ubp_coating,
        ubp_total |-> UbpTotal(ubp_material, ubp_coating),
        unmatched_reason |-> IF mat_match.matched THEN "" ELSE mat_match.match_type]

\* a float quotient a / b, kept exact as the pair of its operands
Quotient(a, b) == [num |-> a, den |-> b]
Zero == Quotient(0, 1)

\* CalculationResults() with components_total = len(df)
NewResults(n) ==
    [components |-> <<>>,
     total_ubp |-> 0, total_weight_kg |-> 0, total_area_m2 |-> 0,
     components_matched |-> 0, components_total |-> n, match_rate |-> Zero,
     by_material |-> EmptyDict, by_coating |-> EmptyDict, by_type |-> EmptyDict,
     unmatched |-> <<>>]

\* `if k not in d: d[k] = init`
SetDefault(d, k, init) == IF k \in DOMAIN d THEN d ELSE d @@ (k :> init)

\* mutant: the totals are updated inside the material-matched branch
AddTotals_matched_only(res, c) ==
    IF c.material_matched
    THEN [res EXCEPT !.total_ubp = @ + c.ubp_total,
                     !.total_weight_kg = @ + c.ges_gewicht_kg,
                     !.total_area_m2 = @ + c.flaeche_m2]
    ELSE res

\* mutant: the grand total takes the material impact only
AddTotals_material_ubp(res, c) ==
    [res EXCEPT !.total_ubp = @ + c.ubp_material,
                !.total_weight_kg = @ + c.ges_gewicht_kg,
                !.total_area_m2 = @ + c.flaeche_m2]

\* lines 90-92
AddTotals(res, c) ==
    [res EXCEPT !.total_ubp = @ + c.ubp_total,
                !.total_weight_kg = @ + c.ges_gewicht_kg,
                !.total_area_m2 = @ + c.flaeche_m2]

\* mutant: a component whose coating did not match is listed as unmatched too
AggregateMaterial_lists_coating(res, c) ==
    LET listed == [res EXCEPT !.unmatched =
                     Append(@, [pos |-> c.pos, material |-> c.material, typ |-> c.typ,
                                weight_kg |-> c.ges_gewicht_kg,
                                reason |-> c.unmatched_reason])]
    IN IF c.material_matched
       THEN LET base == IF c.coating_matched THEN res ELSE listed
                mat_name == OrUnknownName(c.material_oeko_name)
                typ == IF c.typ = <<>> THEN s_Unknown ELSE c.typ
                bm == SetDefault(base.by_material, mat_name,
                                 [ubp |-> 0, weight_kg |-> 0, count |-> 0])
                bt == SetDefault(base.by_type, typ, [ubp |-> 0, count |-> 0])
            IN [base EXCEPT
                  !.components_matched = @ + 1,
                  !.by_material = [bm EXCEPT ![mat_name] =
                                     [ubp |-> @.ubp + c.ubp_material,
                                      weight_kg |-> @.weight_kg + c.ges_gewicht_kg,
                                      count |-> @.count + 1]],
                  !.by_type = [bt EXCEPT ![typ] =
                                 [ubp |-> @.ubp + c.ubp_total, count |-> @.count + 1]]]
       ELSE listed

\* mutant: a by_type bucket counts 1 however many components it holds
AggregateMaterial_type_counted_once(res, c) ==
    IF c.material_matched
    THEN LET mat_name == OrUnknownName(c.material_oeko_name)
             typ == IF c.typ = <<>> THEN s_Unknown ELSE c.typ
             bm == SetDefault(res.by_material, mat_name,
                              [ubp |-> 0, weight_kg |-> 0, count |-> 0])
             bt == SetDefault(res.by_type, typ, [ubp |-> 0, count |-> 0])
         IN [res EXCEPT
               !.components_matched = @ + 1,
               !.by_material = [bm EXCEPT ![mat_name] =
                                  [ubp |-> @.ubp + c.ubp_material,
                                   weight_kg |-> @.weight_kg + c.ges_gewicht_kg,
                                   count |-> @.count + 1]],
               !.by_type = [bt EXCEPT ![typ] =
                              [ubp |-> @.ubp + c.ubp_total, count |-> 1]]]
    ELSE [res EXCEPT !.unmatched =
            Append(@, [pos |-> c.pos, material |-> c.material, typ |-> c.typ,
                       weight_kg |-> c.ges_gewicht_kg, reason |-> c.unmatched_reason])]

\* mutant: a by_type bucket takes the material impact only
AggregateMaterial_type_material_ubp(res, c) ==
    IF c.material_matched
    THEN LET mat_name == OrUnknownName(c.material_oeko_name)
             typ == IF c.typ = <<>> THEN s_Unknown ELSE c.typ
             bm == SetDefault(res.by_material, mat_name,
                              [ubp |-> 0, weight_kg |-> 0, count |-> 0])
             bt == SetDefault(res.by_type, typ, [ubp |-> 0, count |-> 0])
         IN [res EXCEPT
               !.components_matched = @ + 1,
               !.by_material = [bm EXCEPT ![mat_name] =
                                  [ubp |-> @.ubp + c.ubp_material,
                                   weight_kg |-> @.weight_kg + c.ges_gewicht_kg,
                                   count |-> @.count + 1]],
               !.by_type = [bt EXCEPT ![typ] =
                              [ubp |-> @.ubp + c.ubp_material, count |-> @.count + 1]]]
    ELSE [res EXCEPT !.unmatched =
            Append(@, [pos |-> c.pos, material |-> c.material, typ |-> c.typ,
                       weight_kg |-> c.ges_gewicht_kg, reason |-> c.unmatched_reason])]

\* lines 94-120
AggregateMaterial(res, c) ==
    IF c.material_matched
    THEN LET mat_name == OrUnknownName(c.material_oeko_name)
             typ == IF c.typ = <<>> THEN s_Unknown ELSE c.typ
             bm == SetDefault(res.by_material, mat_name,
                              [ubp |-> 0, weight_kg |-> 0, count |-> 0])
             bt == SetDefault(res.by_type, typ, [ubp |-> 0, count |-> 0])
         IN [res EXCEPT
               !.components_matched = @ + 1,
               !.by_material = [bm EXCEPT ![mat_name] =
                                  [ubp |-> @.ubp + c.ubp_material,
                                   weight_kg |-> @.weight_kg + c.ges_gewicht_kg,
                                   count |-> @.count + 1]],
               !.by_type = [bt EXCEPT ![typ] =
                              [ubp |-> @.ubp + c.ubp_total, count |-> @.count + 1]]]
    ELSE [res EXCEPT !.unmatched =
            Append(@, [pos |-> c.pos, material |-> c.material, typ |-> c.typ,
                       weight_kg |-> c.ges_gewicht_kg, reason |-> c.unmatched_reason])]

\* mutant: the coating is aggregated inside the material-matched branch
AggregateCoating_matched_material_only(res, c) ==
    IF c.coating_matched /\ c.material_matched
    THEN LET coat_name == OrUnknownName(c.coating_oeko_name)
             bc == SetDefault(res.by_coating, coat_name,
                              [ubp |-> 0, area_m2 |-> 0, count |-> 0])
         IN [res EXCEPT !.by_coating = [bc EXCEPT ![coat_name] =
                          [ubp |-> @.ubp + c.ubp_coating,
                           area_m2 |-> @.area_m2 + c.flaeche_m2,
                           count |-> @.count + 1]]]
    ELSE res

\* lines 123-131
AggregateCoating(res, c) ==
    IF c.coating_matched
    THEN LET coat_name == OrUnknownName(c.coating_oeko_name)
             bc == SetDefault(res.by_coating, coat_name,
                              [ubp |-> 0, area_m2 |-> 0, count |-> 0])
         IN [res EXCEPT !.by_coating = [bc EXCEPT ![coat_name] =
                          [ubp |-> @.ubp + c.ubp_coating,
                           area_m2 |-> @.area_m2 + c.flaeche_m2,
                           count |-> @.count + 1]]]
    ELSE res

\* mutant: the new result is put in front of the list
LoopBody_prepend(res, c) ==
    AggregateCoating(
        AggregateMaterial(
            AddTotals([res EXCEPT !.components = <<c>> \o @], c), c), c)

\* the loop body, lines 86-131, for a row whose component did not raise
LoopBody(res, c) ==
    AggregateCoating(
        AggregateMaterial(
            AddTotals([res EXCEPT !.components = Append(@, c)], c), c), c)

\* mutant: the rate is taken over the unmatched list
MatchRate_of_unmatched(res) ==
    IF res.components_total > 0
    THEN [res EXCEPT !.match_rate = Quotient(Len(res.unmatched), res.components_total)]
    ELSE res

\* lines 134-135
MatchRate(res) ==
    IF res.components_total > 0
    THEN [res EXCEPT !.match_rate = Quotient(res.components_matched, res.components_total)]
    ELSE res

-----------------------------------------------------------------------------
(* Inputs *)

MaxRecords == 2

MaterialCodes ==
    {s_empty, s_blank, s_S235JR, s_s235jr_lc, s_S235JR_padded, s_304, s_X5CrNi,
     s_ENAW6060, s_PE, s_Edelstahl_X5CrNi, s_X5CrNi_gewalzt, s_Stahl_allgemein}
TypeStrings == {s_empty, s_U_Profile, s_Bleche, s_KANTBLECH, s_Sechskantschrauben}
Descriptions == {s_empty, s_M8x20, s_U_Kunststoffplatten, s_Mutter_Kunststoff}
CoatingStrings ==
    {s_empty, s_blank, s_feuerverzinkt, s_Pulverb_IGP, s_FEUERVERZINKT_Pulverb, s_lackiert}

\* rows as parse_mengenliste leaves them: text cells stripped and never NaN,
\* numeric cells a float (of either sign, pd.to_numeric keeps it) or NaN
RowMaterials == {s_empty, s_S235JR, s_PE}
RowTypes == {s_empty, s_Bleche, s_Sechskantschrauben}
RowCoatings == {s_empty, s_feuerverzinkt}
RowWeights == {NaN, Some(2)}
RowAreas == {NaN, Some(3)}

Row(pos, anzahl, material, typ, beschichtung, weight, area) ==
    [pos |-> pos, anzahl |-> anzahl, bezeichnung |-> s_empty, material |-> material,
     typ |-> typ, beschichtung |-> beschichtung, ges_gewicht_kg |-> weight,
     flaeche_m2 |-> area]

RowsOfAnyValues(pos) ==
    {Row(pos, Some(1), m, t, b, w, a) :
        m \in RowMaterials, t \in RowTypes, b \in RowCoatings,
        w \in RowWeights, a \in RowAreas}
    \cup {Row(pos, NaN, s_S235JR, s_Bleche, s_feuerverzinkt, Some(2), Some(3))}
    \cup {Row(pos, Some(1), m, s_Bleche, s_feuerverzinkt, Some(-2), Some(-3)) :
              m \in {s_S235JR, s_PE}}

\* the first two rows of a DataFrame take every combination above; a later
\* row varies in its material, coating and anzahl, with its type, weight and
\* area given
Rows(pos) ==
    IF pos \in {1, 2}
    THEN RowsOfAnyValues(pos)
    ELSE {row \in RowsOfAnyValues(pos) :
              /\ row.typ = s_Bleche
              /\ row.ges_gewicht_kg = Some(2)
              /\ row.flaeche_m2 = Some(3)}

-----------------------------------------------------------------------------
(* State machine *)

\* the rows of the DataFrames given to calls that run side by side: a row
\* matched in material and coating, a row with an unknown material, a row
\* resolved by the type fallback, and a row whose anzahl is NaN
RunRows(pos) ==
    { Row(pos, Some(1), s_S235JR, s_Bleche, s_feuerverzinkt, Some(2), Some(3)),
      Row(pos, Some(1), s_PE, s_empty, s_feuerverzinkt, NaN, Some(3)),
      Row(pos, Some(1), s_empty, s_Sechskantschrauben, s_empty, Some(2), NaN),
      Row(pos, NaN, s_S235JR, s_Bleche, s_empty, Some(2), Some(3)) }

RunDataFrames ==
    UNION { { df \in [1..n -> UNION {RunRows(i) : i \in 1..n}] :
                \A i \in 1..n : df[i] \in RunRows(i) } : n \in 0..MaxRecords }

\* the calculate calls that may be in progress at once
RunIds == {"A", "B"}

\* where a CalculationResults object can live
Addresses == {1, 2}

\* a call not yet made
IdleRun == [pc |-> "idle", df |-> <<>>, k |-> 0, ref |-> 0]

RunStores == {StoreA}

\* what a call that raised KeyError leaves in place of a result
KeyError == [raised |-> "KeyError"]

InitWith(stores) ==
    /\ \E s \in stores :
          /\ materials = s.materials
          /\ type_overrides = s.type_overrides
          /\ type_fallback = s.type_fallback
          /\ coatings = s.coatings
          /\ coating_alu_override = s.coating_alu_override
    /\ call = None
    /\ ret = None
    /\ pc = "idle"
    /\ df_len = 0
    /\ rows_read = <<>>
    /\ results = None
    /\ heap = [a \in Addresses |-> None]
    /\ runs = [r \in RunIds |-> IdleRun]

Init == InitWith(Stores)

\* the matcher was constructed, without error, from a malformed mapping file
InitMalformed == InitWith(MalformedStores)

calc_vars == <<pc, df_len, rows_read, results>>

run_vars == <<heap, runs>>

\* a caller invokes MaterialMatcher.match_material
MatchMaterial ==
    \E material \in MaterialCodes, typ \in TypeStrings, bezeichnung \in Descriptions :
        /\ call' = [op |-> "match_material", material |-> material, typ |-> typ,
                    bezeichnung |-> bezeichnung]
        /\ ret' = IF match_material_raises(material, typ, bezeichnung)
                   THEN KeyError
                   ELSE match_material(material, typ, bezeichnung)
        /\ UNCHANGED <<store_vars, calc_vars, run_vars>>

\* a caller invokes MaterialMatcher.match_coating
MatchCoating ==
    \E beschichtung \in CoatingStrings, material \in MaterialCodes :
        /\ call' = [op |-> "match_coating", beschichtung |-> beschichtung,
                    material |-> material]
        /\ ret' = IF match_coating_raises(beschichtung, material)
                   THEN KeyError
                   ELSE match_coating(beschichtung, material)
        /\ UNCHANGED <<store_vars, calc_vars, run_vars>>

\* calculate is entered: lines 82-83
Calculate ==
    /\ pc \in {"idle", "done", "raised"}
    /\ \E n \in 0..MaxRecords :
          /\ df_len' = n
          /\ results' = NewResults(n)
    /\ rows_read' = <<>>
    /\ pc' = "loop"
    /\ UNCHANGED <<store_vars, call, ret, run_vars>>

\* a loop step that would remember a material the fallback resolved by
\* writing it into the materials table
CalcRow_caches_fallback ==
    /\ pc = "loop"
    /\ Len(rows_read) < df_len
    /\ \E row \in Rows(Len(rows_read) + 1) :
          /\ rows_read' = Append(rows_read, row)
          /\ IF _calculate_component_raises(row)
             THEN /\ pc' = "raised"
                  /\ UNCHANGED <<results, materials>>
             ELSE /\ pc' = "loop"
                  /\ results' = LoopBody(results, _calculate_component(row))
                  /\ materials' =
                        IF match_material(row.material, row.typ, row.bezeichnung).match_type
                              = "type_fallback"
                        THEN Append(materials,
                                    Item(row.typ, MaterialEntry("06.011", "Stahl niedriglegiert", 7)))
                        ELSE materials
    /\ UNCHANGED <<type_overrides, type_fallback, coatings, coating_alu_override,
                   call, ret, df_len, run_vars>>

\* one iteration of `for _, row in df.iterrows()`
CalcRow ==
    /\ pc = "loop"
    /\ Len(rows_read) < df_len
    /\ \E row \in Rows(Len(rows_read) + 1) :
          /\ rows_read' = Append(rows_read, row)
          /\ IF _calculate_component_raises(row)
             THEN /\ pc' = "raised"
                  /\ UNCHANGED results
             ELSE /\ pc' = "loop"
                  /\ results' = LoopBody(results, _calculate_component(row))
    /\ UNCHANGED <<store_vars, call, ret, df_len, run_vars>>

\* the loop is exhausted: lines 134-137
CalcReturn ==
    /\ pc = "loop"
    /\ Len(rows_read) = df_len
    /\ results' = MatchRate(results)
    /\ pc' = "done"
    /\ UNCHANGED <<store_vars, call, ret, df_len, rows_read, run_vars>>

\* one object for every calculate call, whoever makes it
Allocate_shared(h) == 1

\* CalculationResults() makes a new object: its address is one not in use
Allocate(h) ==
    CHOOSE a \in DOMAIN h : h[a] = None /\ \A b \in DOMAIN h : h[b] = None => a <= b

\* a CalculationResults whose components default is one list shared by all
\* instances, instead of a list made by default_factory for each
RunStart_shared_defaults(r) ==
    /\ runs[r].pc = "idle"
    /\ \E df \in RunDataFrames :
          LET a == Allocate(heap)
              shared == IF heap[1] = None THEN <<>> ELSE heap[1].components
          IN /\ heap' = [heap EXCEPT ![a] =
                            [NewResults(Len(df)) EXCEPT !.components = shared]]
             /\ runs' = [runs EXCEPT ![r] = [pc |-> "loop", df |-> df, k |-> 0, ref |-> a]]
    /\ UNCHANGED <<store_vars, call, ret, calc_vars>>

\* call r of calculate is entered with a DataFrame: lines 82-83
RunStart(r) ==
    /\ runs[r].pc = "idle"
    /\ \E df \in RunDataFrames :
          LET a == Allocate(heap)
          IN /\ heap' = [heap EXCEPT ![a] = NewResults(Len(df))]
             /\ runs' = [runs EXCEPT ![r] = [pc |-> "loop", df |-> df, k |-> 0, ref |-> a]]
    /\ UNCHANGED <<store_vars, call, ret, calc_vars>>

\* call r does one iteration of its loop: lines 85-132
RunRow(r) ==
    /\ runs[r].pc = "loop"
    /\ runs[r].k < Len(runs[r].df)
    /\ LET row == runs[r].df[runs[r].k + 1]
       IN IF _calculate_component_raises(row)
          THEN /\ runs' = [runs EXCEPT ![r].pc = "raised"]
               /\ UNCHANGED heap
          ELSE /\ heap' = [heap EXCEPT ![runs[r].ref] =
                              LoopBody(@, _calculate_component(row))]
               /\ runs' = [runs EXCEPT ![r].k = @ + 1]
    /\ UNCHANGED <<store_vars, call, ret, calc_vars>>

\* call r leaves its loop and returns its object: lines 134-137
RunReturn(r) ==
    /\ runs[r].pc = "loop"
    /\ runs[r].k = Len(runs[r].df)
    /\ heap' = [heap EXCEPT ![runs[r].ref] = MatchRate(@)]
    /\ runs' = [runs EXCEPT ![r].pc = "done"]
    /\ UNCHANGED <<store_vars, call, ret, calc_vars>>

Next == Calculate \/ CalcRow \/ CalcReturn

Spec == Init /\ [][Next]_vars

NextMatcher == MatchMaterial \/ MatchCoating

SpecMatcher == Init /\ [][NextMatcher]_vars

SpecMalformed == InitMalformed /\ [][NextMatcher]_vars

\* calculate calls on one UBPCalculator, hence one MaterialMatcher, taking
\* turns row by row
InitRuns == InitWith(RunStores)

NextRuns ==
    \/ \E r \in RunIds : RunStart(r)
    \/ \E r \in RunIds : RunRow(r)
    \/ \E r \in RunIds : RunReturn(r)

SpecRuns == InitRuns /\ [][NextRuns]_vars

-----------------------------------------------------------------------------
(* Properties of the calculator, under Spec *)

\* the ComponentResults made so far by the running or finished calculate
Components == IF results = None THEN <<>> ELSE results.components

ComponentIndex == 1..Len(Components)

\* C1: in every ComponentResult produced by _calculate_component, ubp_total
\* is the sum of ubp_material and ubp_coating.
C1_TotalIsSum ==
    \A i \in ComponentIndex :
        Components[i].ubp_total = Components[i].ubp_material + Components[i].ubp_coating

\* a component with both a material impact and a coating impact was produced
C1_Witness ==
    \E i \in ComponentIndex :
        /\ Components[i].ubp_material > 0
        /\ Components[i].ubp_coating > 0
        /\ Components[i].ubp_total > Components[i].ubp_material

\* C2: an unmatched material gives ubp_material = 0 and an unmatched or
\* absent coating gives ubp_coating = 0, whatever the weight and the area.
C2_UnmatchedIsZero ==
    \A i \in ComponentIndex :
        /\ ~Components[i].material_matched => Components[i].ubp_material = 0
        /\ ~Components[i].coating_matched => Components[i].ubp_coating = 0

\* a component with weight and area, neither its material nor its coating matched
C2_Witness ==
    \E i \in ComponentIndex :
        /\ ~Components[i].material_matched
        /\ ~Components[i].coating_matched
        /\ Components[i].ges_gewicht_kg > 0
        /\ Components[i].flaeche_m2 > 0
        /\ Components[i].material # <<>>
        /\ Components[i].ubp_total = 0

RECURSIVE SumUbpTotal(_)
SumUbpTotal(cs) == IF cs = <<>> THEN 0 ELSE Head(cs).ubp_total + SumUbpTotal(Tail(cs))

RECURSIVE SumWeight(_)
SumWeight(cs) == IF cs = <<>> THEN 0 ELSE Head(cs).ges_gewicht_kg + SumWeight(Tail(cs))

RECURSIVE SumArea(_)
SumArea(cs) == IF cs = <<>> THEN 0 ELSE Head(cs).flaeche_m2 + SumArea(Tail(cs))

\* C9: after every processed record, and so when calculate returns,
\* total_ubp, total_weight_kg and total_area_m2 are the sums of ubp_total,
\* weight and area over all components, matched or not.
C9_TotalsAreSums ==
    results # None =>
        /\ results.total_ubp = SumUbpTotal(results.components)
        /\ results.total_weight_kg = SumWeight(results.components)
        /\ results.total_area_m2 = SumArea(results.components)

\* inside the loop, after a first record whose material is unmatched and
\* whose coating matched: its impact, weight and area are in the totals
C9_Witness ==
    /\ pc = "loop"
    /\ df_len = 2
    /\ Len(Components) = 1
    /\ ~Components[1].material_matched
    /\ Components[1].coating_matched
    /\ Components[1].ubp_total > 0
    /\ results.total_ubp = Components[1].ubp_total
    /\ results.total_weight_kg > 0
    /\ results.total_area_m2 > 0

MaterialMatchedCount == Cardinality({i \in ComponentIndex : Components[i].material_matched})

\* C10: when calculate has returned, match_rate is components_matched /
\* components_total for a non-empty input and 0 for an empty one,
\* components_matched is the number of components whose material matched,
\* and an empty input gives total_ubp 0 and an empty unmatched list.
C10_MatchRate ==
    pc = "done" =>
        /\ results.components_total = df_len
        /\ results.components_matched = MaterialMatchedCount
        /\ results.components_total > 0 =>
              results.match_rate = Quotient(MaterialMatchedCount, df_len)
        /\ results.components_total = 0 =>
              /\ results.match_rate = Zero
              /\ results.total_ubp = 0
              /\ results.unmatched = <<>>
              /\ results.components = <<>>

\* two records, one material matched; the other's coating matched but its
\* material did not: the rate is 1 / 2
C10_Witness ==
    /\ pc = "done"
    /\ df_len = 2
    /\ MaterialMatchedCount = 1
    /\ \E i \in ComponentIndex :
          ~Components[i].material_matched /\ Components[i].coating_matched
    /\ results.match_rate = Quotient(1, 2)

\* calculate has returned for an empty DataFrame
C10_WitnessEmpty ==
    /\ pc = "done"
    /\ df_len = 0
    /\ results.match_rate = Zero

\* the entries of the unmatched list that stand for component i (rows carry
\* their position in the DataFrame as pos)
UnmatchedEntriesOf(i) ==
    {j \in 1..Len(results.unmatched) : results.unmatched[j].pos = Components[i].pos}

\* C11: a component is in the unmatched list exactly when its material match
\* failed, and then exactly once, with its own material, type, weight and
\* reason; the coating outcome plays no part.
C11_UnmatchedIffMaterialFailed ==
    results # None =>
        /\ \A i \in ComponentIndex :
              IF Components[i].material_matched
              THEN UnmatchedEntriesOf(i) = {}
              ELSE /\ Cardinality(UnmatchedEntriesOf(i)) = 1
                   /\ \A j \in UnmatchedEntriesOf(i) :
                         /\ results.unmatched[j].material = Components[i].material
                         /\ results.unmatched[j].typ = Components[i].typ
                         /\ results.unmatched[j].weight_kg = Components[i].ges_gewicht_kg
                         /\ results.unmatched[j].reason = Components[i].unmatched_reason
        /\ \A j \in 1..Len(results.unmatched) :
              \E i \in ComponentIndex : j \in UnmatchedEntriesOf(i)

\* one component with matched material and no coating, not listed, and
\* one with unmatched material and matched coating, listed
C11_Witness ==
    /\ pc = "done"
    /\ Len(results.unmatched) = 1
    /\ \E i \in ComponentIndex :
          /\ Components[i].material_matched
          /\ ~Components[i].coating_matched
          /\ UnmatchedEntriesOf(i) = {}
    /\ \E i \in ComponentIndex :
          /\ ~Components[i].material_matched
          /\ Components[i].coating_matched
          /\ UnmatchedEntriesOf(i) # {}

\* the sum of f[i] over the indices i in S
RECURSIVE SumOver(_, _)
SumOver(f, S) ==
    IF S = {} THEN 0
    ELSE LET i == CHOOSE x \in S : TRUE IN f[i] + SumOver(f, S \ {i})

UbpMaterialOf == [i \in ComponentIndex |-> Components[i].ubp_material]
UbpCoatingOf == [i \in ComponentIndex |-> Components[i].ubp_coating]
UbpTotalOf == [i \in ComponentIndex |-> Components[i].ubp_total]
WeightOf == [i \in ComponentIndex |-> Components[i].ges_gewicht_kg]
AreaOf == [i \in ComponentIndex |-> Components[i].flaeche_m2]

MaterialMatched == {i \in ComponentIndex : Components[i].material_matched}
CoatingMatched == {i \in ComponentIndex : Components[i].coating_matched}

\* the material-matched components resolved to reference name n, those of
\* type t, and the coating-matched components resolved to reference name n
ResolvedToMaterial(n) == {i \in MaterialMatched : Components[i].material_oeko_name = Some(n)}
OfType(t) == {i \in MaterialMatched : Components[i].typ = t}
ResolvedToCoating(n) == {i \in CoatingMatched : Components[i].coating_oeko_name = Some(n)}

\* C12 (as claimed): every by_material bucket holds the sums of ubp_material
\* and weight over the material-matched components resolved to its name,
\* every by_type bucket the sum of ubp_total over the material-matched
\* components of its type, and every by_coating bucket the sums of
\* ubp_coating and area over the coating-matched components resolved to its
\* name.
C12_BucketsAreSums ==
    results # None =>
        /\ \A n \in DOMAIN results.by_material :
              /\ results.by_material[n].ubp = SumOver(UbpMaterialOf, ResolvedToMaterial(n))
              /\ results.by_material[n].weight_kg = SumOver(WeightOf, ResolvedToMaterial(n))
        /\ \A t \in DOMAIN results.by_type :
              results.by_type[t].ubp = SumOver(UbpTotalOf, OfType(t))
        /\ \A n \in DOMAIN results.by_coating :
              /\ results.by_coating[n].ubp = SumOver(UbpCoatingOf, ResolvedToCoating(n))
              /\ results.by_coating[n].area_m2 = SumOver(AreaOf, ResolvedToCoating(n))

\* the bucket a component is filed under: its reference name or its type,
\* and "Unknown" when that is empty or missing
MaterialKey(i) == OrUnknownName(Components[i].material_oeko_name)
TypeKey(i) == IF Components[i].typ = <<>> THEN s_Unknown ELSE Components[i].typ
CoatingKey(i) == OrUnknownName(Components[i].coating_oeko_name)

FiledUnderMaterial(n) == {i \in MaterialMatched : MaterialKey(i) = n}
FiledUnderType(t) == {i \in MaterialMatched : TypeKey(i) = t}
FiledUnderCoating(n) == {i \in CoatingMatched : CoatingKey(i) = n}

\* C12 (amended): the same sums, each bucket taken over the components filed
\* under its key, where a component with an empty type is filed under the
\* by_type key "Unknown" and one with an empty or missing reference name
\* under the key "Unknown" of by_material or by_coating; the buckets that
\* exist are exactly those with a component filed under them.
C12_BucketsAreSumsByKey ==
    results # None =>
        /\ DOMAIN results.by_material = {MaterialKey(i) : i \in MaterialMatched}
        /\ DOMAIN results.by_type = {TypeKey(i) : i \in MaterialMatched}
        /\ DOMAIN results.by_coating = {CoatingKey(i) : i \in CoatingMatched}
        /\ \A n \in DOMAIN results.by_material :
              /\ results.by_material[n].ubp = SumOver(UbpMaterialOf, FiledUnderMaterial(n))
              /\ results.by_material[n].weight_kg = SumOver(WeightOf, FiledUnderMaterial(n))
        /\ \A t \in DOMAIN results.by_type :
              results.by_type[t].ubp = SumOver(UbpTotalOf, FiledUnderType(t))
        /\ \A n \in DOMAIN results.by_coating :
              /\ results.by_coating[n].ubp = SumOver(UbpCoatingOf, FiledUnderCoating(n))
              /\ results.by_coating[n].area_m2 = SumOver(AreaOf, FiledUnderCoating(n))

\* a material-matched component without a type, counted in the by_type
\* bucket "Unknown", and a coating bucket fed by a component whose material
\* is unmatched
C12_Witness ==
    /\ pc = "done"
    /\ Cardinality(FiledUnderType(s_Unknown)) = 1
    /\ OfType(s_Unknown) = {}
    /\ results.by_type[s_Unknown].ubp > 0
    /\ \E i \in CoatingMatched : i \notin MaterialMatched /\ Components[i].ubp_coating > 0

\* the rows whose ComponentResult has been appended: all rows read, but the
\* last one when it raised
RowsDone == IF pc = "raised" THEN Len(rows_read) - 1 ELSE Len(rows_read)

\* after k records, components is the list of the results of the first k
\* records, in input order; one result per record when calculate returns
ComponentsInInputOrder ==
    results # None =>
        /\ Len(results.components) = RowsDone
        /\ \A i \in ComponentIndex :
              /\ Components[i] = _calculate_component(rows_read[i])
              /\ Components[i].pos = i
        /\ pc = "done" => Len(results.components) = df_len

\* a step of the loop leaves the results appended so far as they are
ComponentsKept ==
    (pc = "loop" /\ pc' # "idle") =>
        /\ Len(results'.components) >= Len(results.components)
        /\ SubSeq(results'.components, 1, Len(results.components)) = results.components

\* C13: calculate produces one ComponentResult per input record, in input
\* order: after k records components is the list of the results of the
\* first k records, and results already appended are never reordered or
\* changed by later records.
C13_InputOrderPreserved == []ComponentsInInputOrder /\ [][ComponentsKept]_vars

\* calculate has returned two different results, in the order of their rows
C13_Witness ==
    /\ pc = "done"
    /\ Len(Components) = 2
    /\ Components[1].material # Components[2].material
    /\ Components[1].material = rows_read[1].material
    /\ Components[2].material = rows_read[2].material

\* C14 (as claimed): calculate never raises for a record whose count,
\* weight or area is missing or NaN; it completes, the offending weight or
\* area being 0.0 in the ComponentResult.
C14_NeverRaises ==
    /\ pc # "raised"
    /\ \A i \in ComponentIndex :
          /\ rows_read[i].ges_gewicht_kg = NaN => Components[i].ges_gewicht_kg = 0
          /\ rows_read[i].flaeche_m2 = NaN => Components[i].flaeche_m2 = 0

\* C15 (as claimed): in every ComponentResult, and so in every value added
\* to the totals and aggregates, weight and area are non-negative numbers.
C15_NonNegative ==
    \A i \in ComponentIndex :
        /\ Components[i].ges_gewicht_kg >= 0
        /\ Components[i].flaeche_m2 >= 0

\* the reason tags of an unmatched material
NegativeReasons == {"empty", "no_mapping"}

\* C23: a component's unmatched_reason is "" when its material matched and
\* "empty" or "no_mapping" when it did not, and every entry of the unmatched
\* list has reason "empty" or "no_mapping".
C23_OnlyNegativeReasons ==
    results # None =>
        /\ \A i \in ComponentIndex :
              IF Components[i].material_matched
              THEN Components[i].unmatched_reason = ""
              ELSE Components[i].unmatched_reason \in NegativeReasons
        /\ \A j \in 1..Len(results.unmatched) :
              results.unmatched[j].reason \in NegativeReasons

\* one run listed a component without material code and a component whose
\* code has no mapping
C23_Witness ==
    /\ pc = "done"
    /\ Len(results.unmatched) = 2
    /\ results.unmatched[1].reason = "empty"
    /\ results.unmatched[2].reason = "no_mapping"
    /\ materials # <<>>

\* the counts and the impacts of the buckets of an aggregate map
CountOf(d) == [k \in DOMAIN d |-> d[k].count]
UbpOf(d) == [k \in DOMAIN d |-> d[k].ubp]

SumCount(d) == SumOver(CountOf(d), DOMAIN d)
SumUbp(d) == SumOver(UbpOf(d), DOMAIN d)

\* C24: after every processed record components_matched + len(unmatched) is
\* len(components), and the counts of the by_material buckets and of the
\* by_type buckets each sum to components_matched; when calculate has
\* returned, len(components) is components_total.
C24_CountsBalance ==
    results # None =>
        /\ results.components_matched + Len(results.unmatched) = Len(results.components)
        /\ SumCount(results.by_material) = results.components_matched
        /\ SumCount(results.by_type) = results.components_matched
        /\ pc = "done" =>
              /\ Len(results.components) = results.components_total
              /\ results.components_matched + Len(results.unmatched)
                    = results.components_total

\* a finished run with two matched components in one by_type bucket
C24_Witness ==
    /\ pc = "done"
    /\ results.components_total = 2
    /\ results.components_matched = 2
    /\ \E t \in DOMAIN results.by_type : results.by_type[t].count = 2

\* a finished run with a matched and an unmatched component
C24_WitnessUnmatched ==
    /\ pc = "done"
    /\ results.components_matched = 1
    /\ Len(results.unmatched) = 1

\* C25: total_ubp is the sum of ubp over the by_material buckets plus the sum
\* of ubp over the by_coating buckets, also when a component's material is
\* unmatched and its coating matched.
C25_TotalIsMaterialPlusCoating ==
    results # None =>
        results.total_ubp = SumUbp(results.by_material) + SumUbp(results.by_coating)

\* the material-unmatched components whose coating matched
CoatingOnly == CoatingMatched \ MaterialMatched

\* a finished run with a component of each kind: material and coating
\* matched, and coating matched alone with an impact
C25_Witness ==
    /\ pc = "done"
    /\ MaterialMatched \cap CoatingMatched # {}
    /\ \E i \in CoatingOnly : Components[i].ubp_coating > 0
    /\ SumUbp(results.by_material) > 0

\* the coating impact of the components whose material is unmatched
UnmatchedCoatingUbp == SumOver(UbpCoatingOf, ComponentIndex \ MaterialMatched)

\* the sum of ubp over the by_type buckets is total_ubp less the coating
\* impact of the material-unmatched components
ByTypeCoversMatched ==
    SumUbp(results.by_type) = results.total_ubp - UnmatchedCoatingUbp

\* C26 (as claimed): the by_type sum is total_ubp less the coating impact of
\* the material-unmatched components, and it equals total_ubp only when no
\* component has an unmatched material and a matched coating.
C26_ByTypeEqualsTotalOnlyWithout ==
    results # None =>
        /\ ByTypeCoversMatched
        /\ SumUbp(results.by_type) = results.total_ubp => CoatingOnly = {}

\* C26 (amended): the by_type sum is total_ubp less the coating impact of the
\* material-unmatched components, and it equals total_ubp exactly when that
\* coating impact is zero, which it also is for a component whose coating
\* matched on an area of zero.
C26_ByTypeCoversMatchedOnly ==
    results # None =>
        /\ ByTypeCoversMatched
        /\ SumUbp(results.by_type) = results.total_ubp <=> UnmatchedCoatingUbp = 0

\* a finished run with a coating-only component that has an impact, its
\* impact in total_ubp and in by_coating and in no by_type bucket
C26_Witness ==
    /\ pc = "done"
    /\ MaterialMatched # {}
    /\ \E i \in CoatingOnly : Components[i].ubp_coating > 0
    /\ SumUbp(results.by_type) < results.total_ubp
    /\ SumUbp(results.by_coating) = UnmatchedCoatingUbp

\* a finished run with a coating-only component of area zero
C26_WitnessZeroArea ==
    /\ pc = "done"
    /\ \E i \in CoatingOnly : Components[i].flaeche_m2 = 0
    /\ SumUbp(results.by_type) = results.total_ubp

-----------------------------------------------------------------------------
(* Properties of the matcher, under SpecMatcher *)

MaterialCall == call # None /\ call.op = "match_material"
CoatingCall == call # None /\ call.op = "match_coating"

\* the result carries exactly this entry's id, name and impact per kg
CarriesMaterialEntry(r, e) ==
    /\ r.matched
    /\ r.oeko_id = Some(e.oeko_id)
    /\ r.oeko_name = Some(e.oeko_name)
    /\ r.ubp_per_kg = Some(e.ubp_per_kg)

\* the code "304", or a code containing "X5CRNI" in any letter case
StainlessCode(m) == m = s_304 \/ Contains(kw_X5CRNI, upper(m))

\* the override rules whose key occurs in the type string, in any letter case
RulesInType(typ) ==
    {i \in 1..Len(type_overrides) : Contains(lower(type_overrides[i].key), lower(typ))}

\* those of them that have a steel entry
SteelRulesInType(typ) ==
    {i \in RulesInType(typ) : "steel" \in DOMAIN type_overrides[i].data}

\* C3: match_material on "304" or on a code containing "X5CRNI" never
\* returns match_type "type_override", whatever the type string and the
\* store; when the code is a key of the material table the result is the
\* exact match on the code's own entry.
C3_StainlessNeverOverridden ==
    (MaterialCall /\ StainlessCode(call.material)) =>
        /\ ret.match_type # "type_override"
        /\ HasKey(materials, call.material) =>
              /\ ret.match_type = "exact"
              /\ CarriesMaterialEntry(ret, Lookup(materials, call.material))

\* "304" with a type string that triggers a steel override rule: exact match
C3_Witness ==
    /\ MaterialCall
    /\ call.material = s_304
    /\ call.typ = s_KANTBLECH
    /\ SteelRulesInType(call.typ) # {}
    /\ ret.matched
    /\ ret.match_type = "exact"

\* C4: for a code that is a key of the material table the result is the
\* type override carrying the steel entry of the first rule, in configured
\* order, whose key occurs in the type string and which has a steel entry,
\* exactly when the code's base category is "steel" and there is such a
\* rule; in every other case it is the exact match on the code's own entry.
C4_OverrideExactlyForSteel ==
    (MaterialCall /\ HasKey(materials, call.material)) =>
        LET rules == SteelRulesInType(call.typ) IN
        IF _get_base_category(call.material) = "steel" /\ rules # {}
        THEN LET first == CHOOSE i \in rules : \A j \in rules : i <= j
             IN /\ ret.match_type = "type_override"
                /\ CarriesMaterialEntry(ret, type_overrides[first].data["steel"])
        ELSE /\ ret.match_type = "exact"
             /\ CarriesMaterialEntry(ret, Lookup(materials, call.material))

\* a steel code overridden where two rules with a steel entry apply and a
\* rule without one applies before them
C4_Witness ==
    /\ MaterialCall
    /\ HasKey(materials, call.material)
    /\ ret.match_type = "type_override"
    /\ Cardinality(SteelRulesInType(call.typ)) >= 2
    /\ \E i \in RulesInType(call.typ) \ SteelRulesInType(call.typ) :
          \A j \in SteelRulesInType(call.typ) : i < j

\* an empty or whitespace-only string
Blank(str) == \A i \in 1..Len(str) : str[i] = " "

\* some string of the list occurs in the text, in any letter case
OccursIn(list, text) ==
    \E i \in 1..Len(list) : Contains(lower(list[i]), lower(text))

\* the three rules of the fallback chain, read off the type_fallback table
FastenerTypeFires(typ) ==
    /\ "fasteners" \in DOMAIN type_fallback
    /\ "types" \in DOMAIN type_fallback.fasteners
    /\ OccursIn(type_fallback.fasteners.types, typ)

FastenerKeywordFires(bezeichnung) ==
    /\ "fasteners" \in DOMAIN type_fallback
    /\ "keywords" \in DOMAIN type_fallback.fasteners
    /\ OccursIn(type_fallback.fasteners.keywords, bezeichnung)

PlasticKeywordFires(bezeichnung) ==
    /\ "plastic" \in DOMAIN type_fallback
    /\ "keywords" \in DOMAIN type_fallback.plastic
    /\ OccursIn(type_fallback.plastic.keywords, bezeichnung)

FallbackFires(typ, bezeichnung) ==
    FastenerTypeFires(typ) \/ FastenerKeywordFires(bezeichnung)
        \/ PlasticKeywordFires(bezeichnung)

IsUnmatched(r, reason) ==
    /\ ~r.matched
    /\ r.match_type = reason
    /\ r.oeko_id = None /\ r.oeko_name = None /\ r.ubp_per_kg = None

\* C5: a blank material code is resolved by the fallback chain and is
\* unmatched with reason "empty" when no fallback rule fires; a code that is
\* not blank and, once trimmed, is not a key of the material table is
\* unmatched with reason "no_mapping", also when its type or description
\* would fire a fallback rule.
C5_Precedence ==
    MaterialCall =>
        /\ (Blank(call.material) /\ ~FallbackFires(call.typ, call.bezeichnung))
              => IsUnmatched(ret, "empty")
        /\ (Blank(call.material) /\ FallbackFires(call.typ, call.bezeichnung))
              => (ret.matched /\ ret.match_type = "type_fallback")
        /\ (~Blank(call.material) /\ ~HasKey(materials, strip(call.material)))
              => IsUnmatched(ret, "no_mapping")

\* a code that is not in the table, with a type and a description that fire
\* fallback rules, is reported as "no_mapping"
C5_Witness ==
    /\ MaterialCall
    /\ call.material = s_PE
    /\ FastenerTypeFires(call.typ)
    /\ PlasticKeywordFires(call.bezeichnung)
    /\ IsUnmatched(ret, "no_mapping")

\* the whitespace-only code with no fallback rule firing is reported as "empty"
C5_WitnessEmpty ==
    /\ MaterialCall
    /\ call.material = s_blank
    /\ type_fallback # EmptyDict
    /\ IsUnmatched(ret, "empty")

\* C6: with the material code absent, the fastener type substrings are
\* tried against the type, then the fastener keywords against the
\* description, then the plastic keywords against the description, all in
\* any letter case; the first rule found decides the entry and the category,
\* with match_type "type_fallback".
C6_FallbackOrder ==
    (MaterialCall /\ Blank(call.material)) =>
        IF FastenerTypeFires(call.typ) \/ FastenerKeywordFires(call.bezeichnung)
        THEN /\ ret.match_type = "type_fallback"
             /\ ret.category = Some("fastener")
             /\ CarriesMaterialEntry(ret, type_fallback.fasteners)
        ELSE IF PlasticKeywordFires(call.bezeichnung)
        THEN /\ ret.match_type = "type_fallback"
             /\ ret.category = Some("plastic")
             /\ CarriesMaterialEntry(ret, type_fallback.plastic)
        ELSE IsUnmatched(ret, "empty")

\* a fastener type with a description that holds a plastic keyword: fastener
C6_Witness ==
    /\ MaterialCall
    /\ Blank(call.material)
    /\ FastenerTypeFires(call.typ)
    /\ ~FastenerKeywordFires(call.bezeichnung)
    /\ PlasticKeywordFires(call.bezeichnung)
    /\ ret.category = Some("fastener")
    /\ ret.oeko_id = Some(type_fallback.fasteners.oeko_id)

\* the result carries exactly this entry's id, name and impact per m2
CarriesCoatingEntry(r, e) ==
    /\ r.matched
    /\ r.oeko_id = Some(e.oeko_id)
    /\ r.oeko_name = Some(e.oeko_name)
    /\ r.ubp_per_m2 = Some(e.ubp_per_m2)

\* the coating rules whose key occurs in the descriptor, in any letter case
KeysInDescriptor(beschichtung) ==
    {i \in 1..Len(coatings) : Contains(lower(coatings[i].key), lower(beschichtung))}

\* the first of them in configured order
WinningRule(beschichtung) ==
    CHOOSE i \in KeysInDescriptor(beschichtung) :
        \A j \in KeysInDescriptor(beschichtung) : i <= j

\* C7: match_coating reports a match exactly when the descriptor is not
\* blank and some configured coating key occurs in it, in any letter case;
\* the entry returned is that of the first such key in configured order (its
\* base entry or its aluminum override), and an unmatched result carries no
\* reference data.
C7_FirstCoatingKeyWins ==
    CoatingCall =>
        /\ ret.matched <=>
              (~Blank(call.beschichtung) /\ KeysInDescriptor(call.beschichtung) # {})
        /\ ret.matched =>
              LET key == coatings[WinningRule(call.beschichtung)].key IN
              \/ CarriesCoatingEntry(ret, coatings[WinningRule(call.beschichtung)].data)
              \/ /\ HasKey(coating_alu_override, key)
                 /\ CarriesCoatingEntry(ret, Lookup(coating_alu_override, key))
        /\ ~ret.matched =>
              (ret.oeko_id = None /\ ret.oeko_name = None /\ ret.ubp_per_m2 = None)

\* a descriptor holding two keys, the first configured one shorter than the
\* other: the first one's entry is returned
C7_Witness ==
    /\ CoatingCall
    /\ \E j \in KeysInDescriptor(call.beschichtung) :
          Len(coatings[j].key) > Len(coatings[WinningRule(call.beschichtung)].key)
    /\ CarriesCoatingEntry(ret, coatings[WinningRule(call.beschichtung)].data)

\* C8 (as claimed): when a rule wins, the aluminum override entry is
\* returned exactly when the rule's key has one and the material code's base
\* category, by the classifier of material matching, is "aluminum";
\* otherwise the rule's base entry is returned.
C8_AluOverrideByBaseCategory ==
    (CoatingCall /\ ret.matched) =>
        LET key == coatings[WinningRule(call.beschichtung)].key IN
        IF HasKey(coating_alu_override, key)
              /\ _get_base_category(call.material) = "aluminum"
        THEN CarriesCoatingEntry(ret, Lookup(coating_alu_override, key))
        ELSE CarriesCoatingEntry(ret, coatings[WinningRule(call.beschichtung)].data)

\* the object call r works on or has returned
ResultOf(r) == heap[runs[r].ref]

\* C16: two calculate calls on the same record sequence with the same
\* mapping store return identical CalculationResults, in whatever order the
\* calls run relative to each other.
C16_Repeatable ==
    \A r1 \in RunIds, r2 \in RunIds :
        /\ runs[r1].pc = "done"
        /\ runs[r2].pc = "done"
        /\ runs[r1].df = runs[r2].df
        => ResultOf(r1) = ResultOf(r2)

\* two calls on the same two records have returned, with a matched and an
\* unmatched component each
C16_Witness ==
    /\ \A r \in RunIds : runs[r].pc = "done" /\ Len(runs[r].df) = 2
    /\ runs["A"].df = runs["B"].df
    /\ runs["A"].ref # runs["B"].ref
    /\ ResultOf("A").components_matched = 1
    /\ Len(ResultOf("A").unmatched) = 1
    /\ ResultOf("B").total_ubp > 0

\* C17: match_material, match_coating and calculate leave the five rule
\* tables as they were, on every step and for every input.
C17_StoreReadOnly == [][UNCHANGED store_vars]_vars

\* a calculation over a store with rules has run to its end and matched a
\* material and a coating
C17_Witness ==
    /\ pc = "done"
    /\ materials # <<>>
    /\ coatings # <<>>
    /\ MaterialMatched # {}
    /\ CoatingMatched # {}

RECURSIVE RunAlone(_, _)
\* what calculate has built after k rows of df when nothing else runs
RunAlone(df, k) ==
    IF k = 0
    THEN NewResults(Len(df))
    ELSE LoopBody(RunAlone(df, k - 1), _calculate_component(df[k]))

\* C18: interleaved calls sharing one MaterialMatcher each work on an object
\* of their own, and at every point each call's object is what the call
\* would have built alone; so each returns the result of running alone.
C18_RunsDoNotInterfere ==
    /\ \A r1 \in RunIds, r2 \in RunIds :
          (r1 # r2 /\ runs[r1].pc # "idle" /\ runs[r2].pc # "idle")
          => runs[r1].ref # runs[r2].ref
    /\ \A r \in RunIds :
          /\ runs[r].pc \in {"loop", "raised"}
                => ResultOf(r) = RunAlone(runs[r].df, runs[r].k)
          /\ runs[r].pc = "done"
                => ResultOf(r) = MatchRate(RunAlone(runs[r].df, Len(runs[r].df)))

\* both calls are in the middle of their loops, on different records, one
\* record done each
C18_Witness ==
    /\ \A r \in RunIds : runs[r].pc = "loop" /\ runs[r].k = 1 /\ Len(runs[r].df) = 2
    /\ runs["A"].df # runs["B"].df
    /\ ResultOf("A").components_matched = 1
    /\ ResultOf("B").components_matched = 0

\* the store _load_mappings builds when the mapping file does not exist
StoreIsEmpty ==
    /\ materials = <<>>
    /\ type_overrides = <<>>
    /\ type_fallback = EmptyDict
    /\ coatings = <<>>
    /\ coating_alu_override = <<>>

\* C19 (as claimed): with the store of an absent mapping file, calculate on
\* any records completes, and what it has built has components_matched 0,
\* total_ubp 0 and every component in the unmatched list.
C19_EmptyStoreCompletesUnmatched ==
    StoreIsEmpty =>
        /\ pc # "raised"
        /\ pc \in {"loop", "done"} =>
              /\ results.components_matched = 0
              /\ results.total_ubp = 0
              /\ \A i \in ComponentIndex :
                    /\ i \notin MaterialMatched
                    /\ i \notin CoatingMatched
                    /\ UnmatchedEntriesOf(i) # {}

\* C20 (as claimed): once the matcher has been constructed without error,
\* no match_material or match_coating call raises because of the store's
\* content: every call returns a matched or an unmatched result.
C20_NoRaiseAfterLoad ==
    call # None => (ret # KeyError /\ "matched" \in DOMAIN ret)

\* the keys of the material table that differ from the code at most in
\* letter case and in surrounding whitespace
KeysEqualUpToCaseAndSpace(m) ==
    {i \in 1..Len(materials) : _normalize(materials[i].key) = _normalize(m)}

\* C21 (as claimed): a material code that differs from a key of the material
\* table only in letter case or surrounding whitespace resolves as the key
\* itself does: match_material returns for it what it returns for the key.
C21_LookupNormalizes ==
    MaterialCall =>
        \A i \in KeysEqualUpToCaseAndSpace(call.material) :
            /\ ret.matched
            /\ ret = match_material(materials[i].key, call.typ, call.bezeichnung)

\* the code contains S235, S355, STAHL or STEEL, in any letter case
HasSteelKeyword(m) == \E i \in 1..4 : Contains(SteelKeywords[i], upper(m))

\* the code contains a keyword of one of the classifier's keyword sets
HasAnyKeyword(m) ==
    \/ StainlessCode(m)
    \/ AnyKeywordIn(AluminumKeywords, upper(m))
    \/ AnyKeywordIn(SteelKeywords, upper(m))

\* C22 (as claimed): a material code with a steel keyword and no stainless
\* marker classifies as "steel", so when it is a key of the material table
\* and a steel override rule fires on the type, the override is returned; a
\* code with no keyword at all classifies as "unknown".
C22_SteelKeywordsClassifySteel ==
    MaterialCall =>
        /\ (HasSteelKeyword(call.material) /\ ~StainlessCode(call.material)) =>
              /\ _get_base_category(call.material) = "steel"
              /\ (HasKey(materials, call.material) /\ SteelRulesInType(call.typ) # {})
                    => ret.match_type = "type_override"
        /\ ~HasAnyKeyword(call.material) =>
              _get_base_category(call.material) = "unknown"

TypeOK == pc \in {"idle", "loop", "done", "raised"}

====
